---- MODULE Spec2Model ----
(***************************************************************************)
(* Model of the operator console of src/src/App.jsx: the React component   *)
(* App, its state hooks, its two effects, its asynchronous handlers and    *)
(* the repeating timer of the automatic cycle.                             *)
(*                                                                         *)
(* Execution is single-threaded and cooperative.  An asynchronous function *)
(* runs atomically from one awaited transport call to the next, so every   *)
(* action below is either a user event, a React effect, a timer firing, or *)
(* the return of one transport call together with the continuation that    *)
(* runs up to the next await (state writes and the next request issued).   *)
(* The backend is outside the repository: each response is a               *)
(* nondeterministic choice between a transport failure and a body of the   *)
(* documented shape.                                                       *)
(***************************************************************************)
EXTENDS Naturals, Sequences, FiniteSets, Bags, TLC

VARIABLES
  loading,        \* useState(false)
  seeded,         \* useState(false)
  logs,           \* useState([])
  analytics,      \* useState(null)
  statusMsg,      \* useState('')
  agentConfig,    \* useState(null)
  agentStatus,    \* useState(null)
  gmailQueue,     \* useState([])
  autoRun,        \* useState(false)
  intervalRef,    \* useRef(null).current
  form,           \* useState({from_email, subject, body})
  phase,          \* "init" (constructed), "mounted", "unmounted"
  effectPending,  \* autoRun changed and the [autoRun] effect has not run yet
  timers,         \* the host's table of armed setInterval handles
  nextTimerId,    \* the handle the next setInterval returns
  procs,          \* bag of asynchronous operations in flight
  started,        \* operations started by the user or the timer so far
  edits,          \* edits of the ingest form so far
  failures,       \* transport failures so far
  backend,        \* the backend's state: how many changes it has applied
  mailbox,        \* the backend's mailbox queue: how many changes it has seen
  last            \* history: the await the latest step settled, and its effect

vars == <<loading, seeded, logs, analytics, statusMsg, agentConfig, agentStatus,
          gmailQueue, autoRun, intervalRef, phase, effectPending, timers,
          nextTimerId, procs, started, failures,
          backend, mailbox, last, form, edits>>

----------------------------------------------------------------------------
(* Bounds of the model *)

\* operations (manual or timer-driven) allowed in flight together
MaxInFlight == 2
\* user events and timer ticks in one run
MaxOps == 3
\* transport failures in one run
MaxFailures == 1
\* edits of the ingest form in one run
MaxEdits == 3

----------------------------------------------------------------------------
(* Values *)

\* JavaScript null
Null == [null |-> TRUE]
\* intervalRef.current when no handle is stored (null)
NoTimer == 0

\* The backend is an external service.  Its state is abstracted to the number
\* of changes it has applied, and that of its mailbox queue to the number of
\* changes the queue has seen (seeding changes the backend, not the queue).
\* The backend serves a GET at some moment between the request and the
\* response, so the response of the operation p carries the snapshot of any
\* version between the one at the request (p.sent) and the current one, in
\* the response shape of the endpoint.
AnalyticsAt(v) == [total |-> v]
LogsAt(v) == [i \in 1..v |-> i]
StatusAt(v) == [responded |-> v]
QueueAt(v) == [i \in 1..v |-> i]
AnalyticsBodies(p) == {AnalyticsAt(v) : v \in p.sent..backend}
LogsBodies(p) == {LogsAt(v) : v \in p.sent..backend}
ConfigBodies == {[gmail_mode |-> "mock"]}
StatusBodies(p) == {StatusAt(v) : v \in p.sent..backend}
PollBodies(p) == {[items |-> QueueAt(v)] : v \in p.sent..mailbox}
RunOnceBodies == {[processed |-> TRUE], [processed |-> FALSE]}
RunLoopBodies == {[processed |-> 0], [processed |-> 1]}
\* e.message of a failed api() call: `${res.status} ${res.statusText}`
ErrorMessages == {"500 Internal Server Error"}

\* JavaScript truthiness of a value that is null or an object
Truthy(v) == v # Null
\* JavaScript truthiness of an array: every array is truthy, the empty one too
TruthyArray(a) == TRUE

\* a state setter of a mounted component replaces the state with its argument;
\* on an unmounted component it has no effect
SetState(prior, value) == IF phase = "mounted" THEN value ELSE prior

\* api(path, opts): throws Error(`${res.status} ${res.statusText}`) when the
\* response is not ok, otherwise returns the parsed body
api(Bodies) ==
  {[ok |-> FALSE, error |-> e] : e \in IF failures < MaxFailures THEN ErrorMessages ELSE {}}
    \cup {[ok |-> TRUE, body |-> b] : b \in Bodies}

\* the count of transport failures after the response r
Failed(r) == IF r.ok THEN failures ELSE failures + 1
\* and after the two responses of a Promise.all
Failed2(r1, r2) == Failed(r1) + (IF r2.ok THEN 0 ELSE 1)

\* the backend after it served a POST with response r: a successful seed or
\* ingest changes it, a run changes it when it processed something
Served(r, changes) == IF r.ok /\ changes THEN backend + 1 ELSE backend

\* the mailbox queue after the backend served a POST with response r: a
\* successful ingest adds a message, a run that processed something takes
\* messages off it
Delivered(r, changes) == IF r.ok /\ changes THEN mailbox + 1 ELSE mailbox

\* the acknowledgement of a POST whose body the client does not read
AckBodies == {[ack |-> TRUE]}

----------------------------------------------------------------------------
(* Asynchronous operations in flight *)

\* mutant of Requests: ingest polls the queue while it posts the message
RequestsPollWithIngest(pc) ==
  CASE pc = "seed" -> <<"/seed/vendors">>
    [] pc = "ingest" -> <<"/gmail/poll", "/ingest/mock-email">>
    [] pc = "runOnce" -> <<"/agent/run-once">>
    [] pc = "runLoop" -> <<"/agent/run-loop">>
    [] pc \in {"refreshAll", "tickRefreshAll"} -> <<"/analytics/summary", "/logs">>
    [] pc \in {"poll", "tickPoll"} -> <<"/gmail/poll">>
    [] pc \in {"status", "tickStatus"} -> <<"/agent/status">>
    [] pc = "meta" -> <<"/agent/config", "/agent/status">>
    [] pc = "done" -> <<>>

\* the transport calls an operation issues when it reaches a code position
Requests(pc) ==
  CASE pc = "seed" -> <<"/seed/vendors">>
    [] pc = "ingest" -> <<"/ingest/mock-email">>
    [] pc = "runOnce" -> <<"/agent/run-once">>
    [] pc = "runLoop" -> <<"/agent/run-loop">>
    [] pc \in {"refreshAll", "tickRefreshAll"} -> <<"/analytics/summary", "/logs">>
    [] pc \in {"poll", "tickPoll"} -> <<"/gmail/poll">>
    [] pc \in {"status", "tickStatus"} -> <<"/agent/status">>
    [] pc = "meta" -> <<"/agent/config", "/agent/status">>
    [] pc = "done" -> <<>>

\* runLoop(10), the argument of the Run 10 steps button
RunLoopSteps == 10

\* the initial state of the ingest form: useState({from_email, subject, body})
InitialForm ==
  [from_email |-> "vendor@example.com",
   subject |-> "What is the status of VR-2025-0012?",
   body |-> "Hi team, could you confirm the status of my vendor registration VR-2025-0012? Thanks."]

\* mutant of runLoopRequestBody: the argument is dropped and one step is asked for
runLoopRequestBodyOneStep(steps) == [max_steps |-> 1]

\* the body of the run-loop request: JSON.stringify({ max_steps: steps })
runLoopRequestBody(steps) == [max_steps |-> steps]

\* the body of the primary request an operation sends when it starts at pc:
\* [] for seed, the current form for ingest, { max_steps } for run-loop, none
\* otherwise
RequestBody(pc) ==
  CASE pc = "seed" -> <<>>
    [] pc = "ingest" -> form
    [] pc = "runLoop" -> runLoopRequestBody(RunLoopSteps)
    [] OTHER -> Null

\* the version of what the request(s) issued at pc read, when the backend has
\* applied b changes: the mailbox for a queue poll, the backend for the other
\* GET requests
Version(pc, b) ==
  CASE pc \in {"poll", "tickPoll"} -> mailbox
    [] pc \in {"refreshAll", "tickRefreshAll", "status", "tickStatus", "meta"} -> b
    [] OTHER -> 0

\* an operation: the function that runs it (kind), the await it is suspended
\* at (pc) and, as history, the calls it has issued, the outcome of its primary call and, of a tick, whether
\* the automatic cycle was on (or its stop not yet in effect) when it started
\* and whether it was in flight when the operator asked to stop
NewProc(kind, pc) ==
  [kind |-> kind, pc |-> pc, calls |-> Requests(pc), payload |-> RequestBody(pc),
   primary |-> "pending", sent |-> Version(pc, backend),
   cycleActive |-> kind = "tick" /\ (autoRun \/ effectPending),
   survivedStop |-> FALSE]

\* the operation moves to its next await and issues that await's calls, the
\* backend having applied b changes
EnterAt(p, pc, b) ==
  [p EXCEPT !.pc = pc, !.calls = @ \o Requests(pc), !.sent = Version(pc, b)]

\* the same in a step that leaves the backend as it is
Enter(p, pc) == EnterAt(p, pc, backend)

\* In the four functions below, ok says that the awaited call returned
\* rather than threw; a throw inside the try block runs the catch block, which
\* sets the status message and returns.

\* mutant of handleSeedNext: seed refreshes like ingest, queue poll included
handleSeedNextWithPoll(pc, ok) ==
  IF ~ok THEN "done"
  ELSE CASE pc = "seed" -> "refreshAll"
         [] pc = "refreshAll" -> "poll"
         [] pc = "poll" -> "status"
         [] pc = "status" -> "done"

\* handleSeed: seed, then refreshAll, then loadAgentStatus
handleSeedNext(pc, ok) ==
  IF ~ok THEN "done"
  ELSE CASE pc = "seed" -> "refreshAll"
         [] pc = "refreshAll" -> "status"
         [] pc = "status" -> "done"

\* handleIngest: ingest, then refreshAll, pollGmail, loadAgentStatus
handleIngestNext(pc, ok) ==
  IF ~ok THEN "done"
  ELSE CASE pc = "ingest" -> "refreshAll"
         [] pc = "refreshAll" -> "poll"
         [] pc = "poll" -> "status"
         [] pc = "status" -> "done"

\* runOnce: run-once, then refreshAll, pollGmail, loadAgentStatus
runOnceNext(pc, ok) ==
  IF ~ok THEN "done"
  ELSE CASE pc = "runOnce" -> "refreshAll"
         [] pc = "refreshAll" -> "poll"
         [] pc = "poll" -> "status"
         [] pc = "status" -> "done"

\* runLoop: run-loop, then refreshAll, pollGmail, loadAgentStatus
runLoopNext(pc, ok) ==
  IF ~ok THEN "done"
  ELSE CASE pc = "runLoop" -> "refreshAll"
         [] pc = "refreshAll" -> "poll"
         [] pc = "poll" -> "status"
         [] pc = "status" -> "done"

\* mutant of tickNext: the callback only awaits runOnce(false)
tickNextWithoutClosingRefresh(pc, ok) == runOnceNext(pc, ok)

\* mutant of tickNext: runOnce has no catch block, so a failed run-once call
\* rejects the callback
tickNextRunOnceRethrows(pc, ok) ==
  CASE pc \in {"runOnce", "refreshAll", "poll", "status"} ->
         IF pc = "runOnce" /\ ~ok THEN "done"
         ELSE IF runOnceNext(pc, ok) = "done" THEN "tickPoll" ELSE runOnceNext(pc, ok)
    [] pc = "tickPoll" -> IF ok THEN "tickRefreshAll" ELSE "done"
    [] pc = "tickRefreshAll" -> IF ok THEN "tickStatus" ELSE "done"
    [] pc = "tickStatus" -> "done"

\* the setInterval callback: await runOnce(false), which never throws, then
\* pollGmail, refreshAll, loadAgentStatus; the callback has no try block
tickNext(pc, ok) ==
  CASE pc \in {"runOnce", "refreshAll", "poll", "status"} ->
         IF runOnceNext(pc, ok) = "done" THEN "tickPoll" ELSE runOnceNext(pc, ok)
    [] pc = "tickPoll" -> IF ok THEN "tickRefreshAll" ELSE "done"
    [] pc = "tickRefreshAll" -> IF ok THEN "tickStatus" ELSE "done"
    [] pc = "tickStatus" -> "done"

\* mutant of NextPc: refreshAll goes on to reload the agent's metadata
NextPcRefreshReloadsMeta(kind, pc, ok) ==
  CASE kind = "handleSeed" -> handleSeedNext(pc, ok)
    [] kind = "handleIngest" -> handleIngestNext(pc, ok)
    [] kind = "runOnce" -> runOnceNext(pc, ok)
    [] kind = "runLoop" -> runLoopNext(pc, ok)
    [] kind = "tick" -> tickNext(pc, ok)
    [] kind = "refreshAll" -> IF pc = "refreshAll" THEN "meta" ELSE "done"
    [] kind \in {"pollGmail", "loadAgentMeta"} -> "done"

\* where an operation of this kind goes after the await at pc settles
NextPc(kind, pc, ok) ==
  CASE kind = "handleSeed" -> handleSeedNext(pc, ok)
    [] kind = "handleIngest" -> handleIngestNext(pc, ok)
    [] kind = "runOnce" -> runOnceNext(pc, ok)
    [] kind = "runLoop" -> runLoopNext(pc, ok)
    [] kind = "tick" -> tickNext(pc, ok)
    [] kind \in {"refreshAll", "pollGmail", "loadAgentMeta"} -> "done"

InFlight == BagCardinality(procs)
\* the events of the run so far, two edits of the form counting as one
Events == started + (edits + 1) \div 2
\* the operator's first event comes once the startup loads have settled
Ready == started > 0 \/ InFlight = 0
Waiting(pcs) == {p \in BagToSet(procs) : p.pc \in pcs}
TicksInFlight == BagCardinality([p \in {q \in BagToSet(procs) : q.kind = "tick"} |-> procs[p]])

Spawn(p) == procs (+) SetToBag({p})
\* p, suspended, resumes as q: q leaves the bag when it has returned
Resume(p, q) ==
  (procs (-) SetToBag({p})) (+) (IF q.pc = "done" THEN EmptyBag ELSE SetToBag({q}))

\* refreshAll begins with setLoading(true)
LoadingOnEnter(pc) ==
  IF pc \in {"refreshAll", "tickRefreshAll"} THEN SetState(loading, TRUE) ELSE loading

----------------------------------------------------------------------------
(* Construction, effects and the timer *)

\* the host's clearInterval(handle)
clearInterval(table, handle) == table \ {handle}

\* mutant of ClearIfSet: the old timer is never cleared
ClearIfSetSkipped(table, ref) == table

\* if (intervalRef.current) clearInterval(intervalRef.current)
ClearIfSet(table, ref) == IF ref # NoTimer THEN clearInterval(table, ref) ELSE table

\* mutant of effectCleanup: the [autoRun] effect returns no cleanup function
effectCleanupMissing(table, ref) == table

\* the cleanup the [autoRun] effect returns:
\* if (intervalRef.current) clearInterval(intervalRef.current)
effectCleanup(table, ref) == ClearIfSet(table, ref)

\* mutant of RefAfterDisarm: the else branch leaves the stale handle
RefAfterDisarmKept(ref) == ref

\* the else branch of the [autoRun] effect: intervalRef.current = null
RefAfterDisarm(ref) == NoTimer

\* history: the latest step settled no await of interest
NoEvent == [act |-> "none"]

Init ==
  /\ loading = FALSE
  /\ seeded = FALSE
  /\ logs = <<>>
  /\ analytics = Null
  /\ statusMsg = ""
  /\ agentConfig = Null
  /\ agentStatus = Null
  /\ gmailQueue = <<>>
  /\ autoRun = FALSE
  /\ intervalRef = NoTimer
  /\ form = InitialForm
  /\ phase = "init"
  /\ effectPending = FALSE
  /\ timers = {}
  /\ nextTimerId = 1
  /\ procs = EmptyBag
  /\ started = 0
  /\ edits = 0
  /\ failures = 0
  /\ backend = 0
  /\ mailbox = 0
  /\ last = NoEvent

\* first commit: the startup effect calls refreshAll(), loadAgentMeta() and
\* pollGmail() without awaiting them; the [autoRun] effect takes its else branch
Mount ==
  /\ phase = "init"
  /\ phase' = "mounted"
  /\ loading' = TRUE
  /\ procs' = SetToBag({NewProc("refreshAll", "refreshAll")})
                (+) SetToBag({NewProc("loadAgentMeta", "meta")})
                (+) SetToBag({NewProc("pollGmail", "poll")})
  /\ timers' = ClearIfSet(timers, intervalRef)
  /\ intervalRef' = RefAfterDisarm(intervalRef)
  /\ effectPending' = FALSE
  /\ last' = NoEvent
  /\ UNCHANGED <<seeded, logs, analytics, statusMsg, agentConfig, agentStatus,
                 gmailQueue, autoRun, nextTimerId, started, failures, backend, mailbox, form, edits>>

\* Start Auto, rendered while autoRun is false: setAutoRun(true)
StartAuto ==
  /\ phase = "mounted"
  /\ ~effectPending
  /\ ~autoRun
  /\ Ready
  /\ Events < MaxOps
  /\ started' = started + 1
  /\ autoRun' = TRUE
  /\ effectPending' = TRUE
  /\ last' = NoEvent
  /\ UNCHANGED <<loading, seeded, logs, analytics, statusMsg, agentConfig,
                 agentStatus, gmailQueue, intervalRef, phase, timers,
                 nextTimerId, procs, failures, backend, mailbox, form, edits>>

\* history only: the ticks in flight when the operator asks to stop
MarkSurvivors(bag) ==
  LET mark(p) == IF p.kind = "tick" THEN [p EXCEPT !.survivedStop = TRUE] ELSE p
      S == BagToSet(bag)
      T == {mark(p) : p \in S}
  IN  [q \in T |-> BagCardinality([p \in {r \in S : mark(r) = q} |-> bag[p]])]

\* Stop Auto, rendered while autoRun is true: setAutoRun(false)
StopAuto ==
  /\ phase = "mounted"
  /\ ~effectPending
  /\ autoRun
  /\ autoRun' = FALSE
  /\ effectPending' = TRUE
  /\ procs' = MarkSurvivors(procs)
  /\ last' = NoEvent
  /\ UNCHANGED <<loading, seeded, logs, analytics, statusMsg, agentConfig,
                 agentStatus, gmailQueue, intervalRef, phase, timers,
                 nextTimerId, started, failures, backend, mailbox, form, edits>>

\* the [autoRun] effect after autoRun changed: the previous run's cleanup,
\* then the body
AutoRunEffect ==
  /\ phase = "mounted"
  /\ effectPending
  /\ effectPending' = FALSE
  /\ LET cleaned == effectCleanup(timers, intervalRef)
     IN  IF autoRun
         THEN /\ timers' = ClearIfSet(cleaned, intervalRef) \cup {nextTimerId}
              /\ intervalRef' = nextTimerId
              /\ nextTimerId' = nextTimerId + 1
              /\ procs' = procs
         ELSE /\ timers' = ClearIfSet(cleaned, intervalRef)
              /\ intervalRef' = RefAfterDisarm(intervalRef)
              /\ nextTimerId' = nextTimerId
              /\ procs' = procs
  /\ last' = NoEvent
  /\ UNCHANGED <<loading, seeded, logs, analytics, statusMsg, agentConfig,
                 agentStatus, gmailQueue, autoRun, phase, started, failures, backend, mailbox, form, edits>>

\* teardown: the effect's cleanup runs one last time
Unmount ==
  /\ phase = "mounted"
  /\ ~effectPending
  /\ phase' = "unmounted"
  /\ timers' = effectCleanup(timers, intervalRef)
  /\ last' = NoEvent
  /\ UNCHANGED <<loading, seeded, logs, analytics, statusMsg, agentConfig,
                 agentStatus, gmailQueue, autoRun, intervalRef, effectPending,
                 nextTimerId, procs, started, failures, backend, mailbox, form, edits>>

\* an armed timer fires: the callback starts with runOnce(false), which
\* issues run-once without a status message
TimerTick ==
  /\ timers # {}
  /\ InFlight < MaxInFlight
  /\ Events < MaxOps
  /\ started' = started + 1
  /\ procs' = Spawn(NewProc("tick", "runOnce"))
  /\ last' = NoEvent
  /\ UNCHANGED <<loading, seeded, logs, analytics, statusMsg, agentConfig,
                 agentStatus, gmailQueue, autoRun, intervalRef, phase,
                 effectPending, timers, nextTimerId, failures, backend, mailbox, form, edits>>

----------------------------------------------------------------------------
(* User events that start an operation *)

\* mutant of CanStart: the action buttons are disabled while the cycle is on
CanStartOnlyWhileStopped ==
  phase = "mounted" /\ Ready /\ InFlight < MaxInFlight /\ Events < MaxOps /\ ~autoRun

\* the action buttons are rendered, and never disabled, while the component
\* is mounted; the other conjuncts are the bounds of the run
CanStart == phase = "mounted" /\ Ready /\ InFlight < MaxInFlight /\ Events < MaxOps

\* what the operator types into the inputs of the ingest form
FromInputs == {"someone@else.org", "a@b.c"}
SubjectInputs == {"S"}
BodyInputs == {"B"}

\* the inputs are rendered while the component is mounted; the other
\* conjuncts are the bounds of the run
CanEdit ==
  phase = "mounted" /\ Ready /\ edits < MaxEdits /\ started + (edits + 2) \div 2 <= MaxOps

\* onChange of the "from" input: setForm({...form, from_email: e.target.value})
setFormFromEmail ==
  /\ CanEdit
  /\ \E v \in FromInputs : form' = [form EXCEPT !.from_email = v]
  /\ edits' = edits + 1
  /\ last' = NoEvent
  /\ UNCHANGED <<loading, seeded, logs, analytics, statusMsg, agentConfig,
                 agentStatus, gmailQueue, autoRun, intervalRef, phase,
                 effectPending, timers, nextTimerId, procs, started, failures,
                 backend, mailbox>>

\* onChange of the "subject" input: setForm({...form, subject: e.target.value})
setFormSubject ==
  /\ CanEdit
  /\ \E v \in SubjectInputs : form' = [form EXCEPT !.subject = v]
  /\ edits' = edits + 1
  /\ last' = NoEvent
  /\ UNCHANGED <<loading, seeded, logs, analytics, statusMsg, agentConfig,
                 agentStatus, gmailQueue, autoRun, intervalRef, phase,
                 effectPending, timers, nextTimerId, procs, started, failures,
                 backend, mailbox>>

\* onChange of the "body" textarea: setForm({...form, body: e.target.value})
setFormBody ==
  /\ CanEdit
  /\ \E v \in BodyInputs : form' = [form EXCEPT !.body = v]
  /\ edits' = edits + 1
  /\ last' = NoEvent
  /\ UNCHANGED <<loading, seeded, logs, analytics, statusMsg, agentConfig,
                 agentStatus, gmailQueue, autoRun, intervalRef, phase,
                 effectPending, timers, nextTimerId, procs, started, failures,
                 backend, mailbox>>

\* Seed button
handleSeed ==
  /\ CanStart
  /\ statusMsg' = "Seeding sample vendor requests..."
  /\ started' = started + 1
  /\ procs' = Spawn(NewProc("handleSeed", "seed"))
  /\ last' = NoEvent
  /\ UNCHANGED <<loading, seeded, logs, analytics, agentConfig, agentStatus,
                 gmailQueue, autoRun, intervalRef, phase, effectPending, timers,
                 nextTimerId, failures, backend, mailbox, form, edits>>

\* Ingest button
handleIngest ==
  /\ CanStart
  /\ statusMsg' = "Ingesting mock email..."
  /\ started' = started + 1
  /\ procs' = Spawn(NewProc("handleIngest", "ingest"))
  /\ last' = NoEvent
  /\ UNCHANGED <<loading, seeded, logs, analytics, agentConfig, agentStatus,
                 gmailQueue, autoRun, intervalRef, phase, effectPending, timers,
                 nextTimerId, failures, backend, mailbox, form, edits>>

\* Process Next and Run Once buttons: runOnce(true)
handleProcess ==
  /\ CanStart
  /\ statusMsg' = "Processing next email..."
  /\ started' = started + 1
  /\ procs' = Spawn(NewProc("runOnce", "runOnce"))
  /\ last' = NoEvent
  /\ UNCHANGED <<loading, seeded, logs, analytics, agentConfig, agentStatus,
                 gmailQueue, autoRun, intervalRef, phase, effectPending, timers,
                 nextTimerId, failures, backend, mailbox, form, edits>>

\* Run 10 steps button
runLoop ==
  /\ CanStart
  /\ statusMsg' = "Running loop for up to " \o ToString(RunLoopSteps) \o " steps..."
  /\ started' = started + 1
  /\ procs' = Spawn(NewProc("runLoop", "runLoop"))
  /\ last' = NoEvent
  /\ UNCHANGED <<loading, seeded, logs, analytics, agentConfig, agentStatus,
                 gmailQueue, autoRun, intervalRef, phase, effectPending, timers,
                 nextTimerId, failures, backend, mailbox, form, edits>>

\* Refresh link of the logs panel: refreshAll()
ClickRefreshAll ==
  /\ CanStart
  /\ loading' = TRUE
  /\ started' = started + 1
  /\ procs' = Spawn(NewProc("refreshAll", "refreshAll"))
  /\ last' = NoEvent
  /\ UNCHANGED <<seeded, logs, analytics, statusMsg, agentConfig, agentStatus,
                 gmailQueue, autoRun, intervalRef, phase, effectPending, timers,
                 nextTimerId, failures, backend, mailbox, form, edits>>

\* Refresh link of the queue panel: pollGmail()
ClickPollGmail ==
  /\ CanStart
  /\ started' = started + 1
  /\ procs' = Spawn(NewProc("pollGmail", "poll"))
  /\ last' = NoEvent
  /\ UNCHANGED <<loading, seeded, logs, analytics, statusMsg, agentConfig,
                 agentStatus, gmailQueue, autoRun, intervalRef, phase,
                 effectPending, timers, nextTimerId, failures, backend, mailbox, form, edits>>

----------------------------------------------------------------------------
(* Returns of the primary (mutating) calls *)

\* the operation p after its primary call settled: the try block goes on to
\* refreshAll(), the catch block returns
AfterPrimary(p, ok, b) ==
  EnterAt([p EXCEPT !.primary = IF ok THEN "ok" ELSE "fail"], NextPc(p.kind, p.pc, ok), b)

\* what the history records of a settled primary call
PrimaryEvent(p, r, b) ==
  [act |-> "primary", kind |-> p.kind, ok |-> r.ok, response |-> r,
   prevMsg |-> statusMsg, proc |-> AfterPrimary(p, r.ok, b)]

\* /seed/vendors returns in handleSeed
SeedReturn ==
  \E p \in Waiting({"seed"}), r \in api(AckBodies) :
    /\ seeded' = IF r.ok THEN SetState(seeded, TRUE) ELSE seeded
    /\ statusMsg' = SetState(statusMsg,
                      IF r.ok THEN "Seeded sample vendor requests."
                              ELSE "Failed to seed: " \o r.error)
    /\ loading' = LoadingOnEnter(AfterPrimary(p, r.ok, Served(r, TRUE)).pc)
    /\ procs' = Resume(p, AfterPrimary(p, r.ok, Served(r, TRUE)))
    /\ last' = PrimaryEvent(p, r, Served(r, TRUE))
    /\ failures' = Failed(r)
    /\ backend' = Served(r, TRUE)
    /\ mailbox' = mailbox
    /\ UNCHANGED <<logs, analytics, agentConfig, agentStatus, gmailQueue, autoRun,
                   intervalRef, phase, effectPending, timers, nextTimerId, started, form, edits>>

\* /ingest/mock-email returns in handleIngest
IngestReturn ==
  \E p \in Waiting({"ingest"}), r \in api(AckBodies) :
    /\ statusMsg' = SetState(statusMsg,
                      IF r.ok THEN "Email ingested. You can now Process Next."
                              ELSE "Failed to ingest: " \o r.error)
    /\ loading' = LoadingOnEnter(AfterPrimary(p, r.ok, Served(r, TRUE)).pc)
    /\ procs' = Resume(p, AfterPrimary(p, r.ok, Served(r, TRUE)))
    /\ last' = PrimaryEvent(p, r, Served(r, TRUE))
    /\ failures' = Failed(r)
    /\ backend' = Served(r, TRUE)
    /\ mailbox' = Delivered(r, TRUE)
    /\ UNCHANGED <<seeded, logs, analytics, agentConfig, agentStatus, gmailQueue,
                   autoRun, intervalRef, phase, effectPending, timers, nextTimerId, started, form, edits>>

\* mutant of runOnceMessage: every answered run-once is reported as processed
runOnceMessageAlwaysProcessed(r) ==
  IF r.ok THEN "Processed one email and replied (mock)." ELSE "Process failed: " \o r.error

\* the status message runOnce sets from the run-once response
runOnceMessage(r) ==
  IF r.ok
  THEN IF r.body.processed THEN "Processed one email and replied (mock)."
                           ELSE "No emails pending."
  ELSE "Process failed: " \o r.error

\* /agent/run-once returns in runOnce (manual or called by a tick)
RunOnceReturn ==
  \E p \in Waiting({"runOnce"}), r \in api(RunOnceBodies) :
    /\ statusMsg' = SetState(statusMsg, runOnceMessage(r))
    /\ loading' = LoadingOnEnter(AfterPrimary(p, r.ok, Served(r, r.ok /\ r.body.processed)).pc)
    /\ procs' = Resume(p, AfterPrimary(p, r.ok, Served(r, r.ok /\ r.body.processed)))
    /\ last' = PrimaryEvent(p, r, Served(r, r.ok /\ r.body.processed))
    /\ failures' = Failed(r)
    /\ backend' = Served(r, r.ok /\ r.body.processed)
    /\ mailbox' = Delivered(r, r.ok /\ r.body.processed)
    /\ UNCHANGED <<seeded, logs, analytics, agentConfig, agentStatus, gmailQueue,
                   autoRun, intervalRef, phase, effectPending, timers, nextTimerId, started, form, edits>>

\* the status message runLoop sets from the run-loop response
runLoopMessage(r) ==
  IF r.ok
  THEN "Loop done. Processed " \o ToString(r.body.processed) \o " messages."
  ELSE "Run-loop failed: " \o r.error

\* /agent/run-loop returns in runLoop
RunLoopReturn ==
  \E p \in Waiting({"runLoop"}), r \in api(RunLoopBodies) :
    /\ statusMsg' = SetState(statusMsg, runLoopMessage(r))
    /\ loading' = LoadingOnEnter(AfterPrimary(p, r.ok, Served(r, r.ok /\ r.body.processed > 0)).pc)
    /\ procs' = Resume(p, AfterPrimary(p, r.ok, Served(r, r.ok /\ r.body.processed > 0)))
    /\ last' = PrimaryEvent(p, r, Served(r, r.ok /\ r.body.processed > 0))
    /\ failures' = Failed(r)
    /\ backend' = Served(r, r.ok /\ r.body.processed > 0)
    /\ mailbox' = Delivered(r, r.ok /\ r.body.processed > 0)
    /\ UNCHANGED <<seeded, logs, analytics, agentConfig, agentStatus, gmailQueue,
                   autoRun, intervalRef, phase, effectPending, timers, nextTimerId, started, form, edits>>

----------------------------------------------------------------------------
(* refreshAll *)

\* api(...).catch(() => null)
CatchNull(r) == IF r.ok THEN r.body ELSE Null
\* api('/logs').catch(() => [])
CatchEmpty(r) == IF r.ok THEN r.body ELSE <<>>

\* if (an) setAnalytics(an)
refreshAllAnalytics(prior, an) == IF Truthy(an) THEN SetState(prior, an) ELSE prior
\* if (ls) setLogs(ls)
refreshAllLogs(prior, ls) == IF TruthyArray(ls) THEN SetState(prior, ls) ELSE prior

\* mutant of refreshAllResults: the fetches have no catch of their own, so
\* one rejection rejects the Promise.all and neither result is used
refreshAllResultsAllOrNothing(ra, rl) ==
  IF ra.ok /\ rl.ok THEN [an |-> ra.body, ls |-> rl.body] ELSE [an |-> Null, ls |-> <<>>]

\* const [an, ls] = await Promise.all([... .catch(() => null), ... .catch(() => [])])
refreshAllResults(ra, rl) == [an |-> CatchNull(ra), ls |-> CatchEmpty(rl)]

\* refreshAll returns to its caller whatever the fetches did: each fetch has
\* its own catch, and the try block has one more
refreshAllReturns(ra, rl) == TRUE

\* the operation p resumes after the await of refreshAll: refreshAll has run
\* both setters and its finally block, and the caller makes its next call
AfterRefreshAll(p, ra, rl) == Enter(p, NextPc(p.kind, p.pc, refreshAllReturns(ra, rl)))

\* refreshAll's Promise.all settles: the two fetches settle in either order,
\* which the program cannot observe, since it reads neither result before
\* both are there
refreshAllReturn ==
  \E p \in Waiting({"refreshAll", "tickRefreshAll"}) :
   \E ra \in api(AnalyticsBodies(p)), rl \in api(LogsBodies(p)) :
    /\ Failed2(ra, rl) <= MaxFailures
    /\ failures' = Failed2(ra, rl)
    /\ analytics' = refreshAllAnalytics(analytics, refreshAllResults(ra, rl).an)
    /\ logs' = refreshAllLogs(logs, refreshAllResults(ra, rl).ls)
    /\ loading' = SetState(loading, FALSE)
    /\ procs' = Resume(p, AfterRefreshAll(p, ra, rl))
    /\ last' = [act |-> "refreshAll", kind |-> p.kind, an |-> ra, ls |-> rl,
                prevAnalytics |-> analytics, prevLogs |-> logs,
                proc |-> AfterRefreshAll(p, ra, rl)]
    /\ UNCHANGED <<seeded, statusMsg, agentConfig, agentStatus, gmailQueue, autoRun,
                   intervalRef, phase, effectPending, timers, nextTimerId, started,
                   backend, mailbox, form, edits>>

----------------------------------------------------------------------------
(* pollGmail and loadAgentStatus *)

\* res.items || []
ItemsOrEmpty(body) == IF TruthyArray(body.items) THEN body.items ELSE <<>>

\* mutant of pollGmailQueue: the response is appended to the stored queue
pollGmailQueueMerged(prior, r) ==
  IF r.ok THEN SetState(prior, prior \o ItemsOrEmpty(r.body)) ELSE SetState(prior, <<>>)

\* pollGmail: setGmailQueue(res.items || []), and setGmailQueue([]) in the catch
pollGmailQueue(prior, r) ==
  IF r.ok THEN SetState(prior, ItemsOrEmpty(r.body)) ELSE SetState(prior, <<>>)

\* mutant of pollGmailReturns: pollGmail has no catch block
pollGmailRethrows(r) == r.ok

\* pollGmail returns to its caller whatever the response: its catch block
\* handles the failure
pollGmailReturns(r) == TRUE

\* the operation p resumes after the await of pollGmail
AfterPoll(p, r) == Enter(p, NextPc(p.kind, p.pc, pollGmailReturns(r)))

\* /gmail/poll returns in pollGmail
PollReturn ==
  \E p \in Waiting({"poll", "tickPoll"}) : \E r \in api(PollBodies(p)) :
    /\ gmailQueue' = pollGmailQueue(gmailQueue, r)
    /\ loading' = LoadingOnEnter(AfterPoll(p, r).pc)
    /\ procs' = Resume(p, AfterPoll(p, r))
    /\ last' = [act |-> "pollGmail", kind |-> p.kind, ok |-> r.ok, response |-> r,
                prevQueue |-> gmailQueue, proc |-> AfterPoll(p, r)]
    /\ failures' = Failed(r)
    /\ UNCHANGED <<seeded, logs, analytics, statusMsg, agentConfig, agentStatus,
                   autoRun, intervalRef, phase, effectPending, timers, nextTimerId, started, backend, mailbox, form, edits>>

\* loadAgentStatus: setAgentStatus(st); the catch ignores the error
loadAgentStatusValue(prior, r) == IF r.ok THEN SetState(prior, r.body) ELSE prior

\* loadAgentStatus returns to its caller whatever the response
loadAgentStatusReturns(r) == TRUE

\* the operation p resumes after the await of loadAgentStatus
AfterStatus(p, r) == Enter(p, NextPc(p.kind, p.pc, loadAgentStatusReturns(r)))

\* /agent/status returns in loadAgentStatus
StatusReturn ==
  \E p \in Waiting({"status", "tickStatus"}) : \E r \in api(StatusBodies(p)) :
    /\ agentStatus' = loadAgentStatusValue(agentStatus, r)
    /\ procs' = Resume(p, AfterStatus(p, r))
    /\ last' = [act |-> "loadAgentStatus", kind |-> p.kind, ok |-> r.ok, response |-> r,
                prevStatus |-> agentStatus, proc |-> AfterStatus(p, r)]
    /\ failures' = Failed(r)
    /\ UNCHANGED <<loading, seeded, logs, analytics, statusMsg, agentConfig,
                   gmailQueue, autoRun, intervalRef, phase, effectPending, timers,
                   nextTimerId, started, backend, mailbox, form, edits>>

----------------------------------------------------------------------------
(* loadAgentMeta *)

\* if (cfg) setAgentConfig(cfg)
loadAgentMetaConfig(prior, cfg) == IF Truthy(cfg) THEN SetState(prior, cfg) ELSE prior
\* if (st) setAgentStatus(st)
loadAgentMetaStatus(prior, st) == IF Truthy(st) THEN SetState(prior, st) ELSE prior

\* loadAgentMeta's Promise.all settles
loadAgentMetaReturn ==
  \E p \in Waiting({"meta"}) : \E rc \in api(ConfigBodies), rs \in api(StatusBodies(p)) :
    /\ Failed2(rc, rs) <= MaxFailures
    /\ failures' = Failed2(rc, rs)
    /\ agentConfig' = loadAgentMetaConfig(agentConfig, CatchNull(rc))
    /\ agentStatus' = loadAgentMetaStatus(agentStatus, CatchNull(rs))
    /\ procs' = Resume(p, Enter(p, "done"))
    /\ last' = [act |-> "loadAgentMeta", kind |-> p.kind, cfg |-> rc, st |-> rs,
                prevConfig |-> agentConfig, prevStatus |-> agentStatus,
                proc |-> Enter(p, "done")]
    /\ UNCHANGED <<loading, seeded, logs, analytics, statusMsg, gmailQueue, autoRun,
                   intervalRef, phase, effectPending, timers, nextTimerId, started,
                   backend, mailbox, form, edits>>

----------------------------------------------------------------------------
(* Specification *)

Next ==
  \/ Mount
  \/ StartAuto
  \/ StopAuto
  \/ AutoRunEffect
  \/ Unmount
  \/ TimerTick
  \/ handleSeed
  \/ handleIngest
  \/ handleProcess
  \/ runLoop
  \/ ClickRefreshAll
  \/ ClickPollGmail
  \/ setFormFromEmail
  \/ setFormSubject
  \/ setFormBody
  \/ SeedReturn
  \/ IngestReturn
  \/ RunOnceReturn
  \/ RunLoopReturn
  \/ refreshAllReturn
  \/ PollReturn
  \/ StatusReturn
  \/ loadAgentMetaReturn

Spec == Init /\ [][Next]_vars

----------------------------------------------------------------------------
(* Properties *)

Issued(calls, path) == \E i \in DOMAIN calls : calls[i] = path
ManualKinds == {"handleSeed", "handleIngest", "runOnce", "runLoop"}
\* the calls that change the backend: the four POST requests
MutatingPaths == {"/seed/vendors", "/ingest/mock-email", "/agent/run-once", "/agent/run-loop"}
\* how many of the calls are mutating
Mutations(calls) == Cardinality({i \in DOMAIN calls : calls[i] \in MutatingPaths})
\* the operations in flight and the one the latest step resumed
Operations == BagToSet(procs) \cup (IF last.act = "none" THEN {} ELSE {last.proc})
\* the latest step settled an await, and the operation it belongs to returned
Finished == last.act # "none" /\ last.proc.pc = "done"

\* C1: a manual mutating action (seed, ingest, processNext, runBounded) whose
\* primary call failed has, when it finishes, issued its refresh sequence:
\* summary, logs and status, and the queue poll except for seed.
C1_RefreshAfterFailedAction ==
  (Finished /\ last.kind \in ManualKinds /\ last.proc.primary = "fail")
    => /\ Issued(last.proc.calls, "/analytics/summary")
       /\ Issued(last.proc.calls, "/logs")
       /\ Issued(last.proc.calls, "/agent/status")
       /\ last.kind # "handleSeed" => Issued(last.proc.calls, "/gmail/poll")

\* C2: the automatic cycle never overlaps itself: at most one timer tick is
\* in flight in every reachable state.
C2_TicksNeverOverlap == TicksInFlight <= 1

\* C3: in refreshAll a failed fetch of analytics or of logs leaves the stored
\* value of that entity as it was before the refresh.
C3_FailedFetchKeepsPrior ==
  last.act = "refreshAll"
    => /\ ~last.an.ok => analytics = last.prevAnalytics
       /\ ~last.ls.ok => logs = last.prevLogs

\* C4: at most one repeating timer is armed in every reachable state, for any
\* sequence of start-auto, stop-auto, manual actions and ticks.
C4_AtMostOneTimer == Cardinality(timers) <= 1

\* the cycle has been started, stopped and started again, and one timer is armed
C4_Rearmed == autoRun /\ ~effectPending /\ nextTimerId > 2 /\ Cardinality(timers) = 1

\* C5: once stop-auto has taken effect no timer tick starts until the next
\* start-auto, and a tick that was in flight when stop was requested is not
\* cut short: when it finishes it has issued its closing queue poll,
\* summary/logs refresh and status refresh.
C5_StopEndsTicksButNotTheTickInFlight ==
  /\ \A p \in BagToSet(procs) : p.kind = "tick" => p.cycleActive
  /\ (Finished /\ last.kind = "tick" /\ last.proc.survivedStop)
       => /\ last.act = "loadAgentStatus"
          /\ Len(last.proc.calls) >= 5
          /\ SubSeq(last.proc.calls, Len(last.proc.calls) - 3, Len(last.proc.calls))
               = <<"/gmail/poll", "/analytics/summary", "/logs", "/agent/status">>

\* a tick that was in flight at the stop request finishes after the stop has
\* taken effect
C5_SurvivorFinished ==
  /\ Finished /\ last.kind = "tick" /\ last.proc.survivedStop
  /\ phase = "mounted" /\ ~autoRun /\ ~effectPending /\ timers = {}

\* the calls of a tick whose run-once call failed, and those the claim gives
\* every tick
TickCallsShort ==
  <<"/agent/run-once", "/gmail/poll", "/analytics/summary", "/logs", "/agent/status">>
\* the calls of a tick whose run-once call succeeded: runOnce refreshes
\* before it returns to the callback
TickCallsLong ==
  <<"/agent/run-once", "/analytics/summary", "/logs", "/gmail/poll", "/agent/status",
    "/gmail/poll", "/analytics/summary", "/logs", "/agent/status">>

\* C6 as stated: every timer tick issues exactly run-once, queue poll,
\* summary/logs refresh, status refresh, in that order, and nothing else.
C6_TickIsFourSteps ==
  (Finished /\ last.kind = "tick") => last.proc.calls = TickCallsShort

\* C6 as amended: a tick issues exactly one run-once call; when that call
\* fails the tick goes on with queue poll, summary/logs, status; when it
\* succeeds runOnce first issues summary/logs, queue poll and status itself and
\* the tick then issues queue poll, summary/logs and status once more; each
\* step is awaited before the next and no other call is issued.
C6_TickSequence ==
  (Finished /\ last.kind = "tick")
    => /\ last.act = "loadAgentStatus"
       /\ last.proc.calls =
            IF last.proc.primary = "ok" THEN TickCallsLong ELSE TickCallsShort

\* a tick whose run-once call succeeded has finished
C6_SuccessfulTickFinished ==
  Finished /\ last.kind = "tick" /\ last.proc.primary = "ok"

\* C7: once the [autoRun] effect has run, the timer handle is non-none if and
\* only if autoRun is enabled; while the component is mounted the handle is
\* the one armed timer.
C7_HandleIffAutoRun ==
  ~effectPending
    => /\ (intervalRef # NoTimer) <=> autoRun
       /\ phase = "mounted" => timers = (IF autoRun THEN {intervalRef} ELSE {})

\* the cycle was started and then stopped, and the stop has taken effect
C7_StoppedAfterRunning ==
  phase = "mounted" /\ ~effectPending /\ ~autoRun /\ nextTimerId > 1

\* C8: pollQueue never propagates a transport failure: on failure the stored
\* queue becomes the empty sequence, and the operation that called it goes on
\* to its next refresh step (the status refresh in ingest, processNext and
\* runBounded, the closing refreshes in a tick).
C8_PollFailureIsSwallowed ==
  (last.act = "pollGmail" /\ ~last.ok)
    => /\ phase = "mounted" => gmailQueue = <<>>
       /\ last.kind \in {"handleIngest", "runOnce", "runLoop", "tick"}
            => /\ BagIn(last.proc, procs)
               /\ last.proc.calls[Len(last.proc.calls)]
                    \in {"/agent/status", "/logs"}
               /\ last.proc.pc \in {"status", "tickRefreshAll"}

\* a queue poll failed inside an operation while the stored queue held items
C8_PollFailedWithItems ==
  /\ last.act = "pollGmail" /\ ~last.ok /\ phase = "mounted"
  /\ last.kind \in {"handleIngest", "runOnce", "runLoop", "tick"}
  /\ last.prevQueue # <<>>

\* C9: within one refreshAll a failed logs fetch does not keep the analytics
\* response from being stored, and a failed analytics fetch does not keep the
\* logs response from being stored.
C9_RefreshHalvesIndependent ==
  (last.act = "refreshAll" /\ phase = "mounted")
    => /\ (last.an.ok /\ ~last.ls.ok) => analytics = last.an.body
       /\ (last.ls.ok /\ ~last.an.ok) => logs = last.ls.body

\* the logs fetch failed and the analytics response replaced another value
C9_LogsFailedAnalyticsStored ==
  /\ last.act = "refreshAll" /\ phase = "mounted"
  /\ last.an.ok /\ ~last.ls.ok
  /\ last.prevAnalytics # Null /\ last.prevAnalytics # last.an.body

\* C10: when a refresh of an entity (queue, status, analytics, logs) completes
\* successfully, the stored value of the entity is exactly the body of that
\* response, whatever was stored before and whatever other refreshes are in
\* flight: the replacement is wholesale.
C10_StoreEqualsLastSuccess ==
  phase = "mounted"
    => /\ last.act = "refreshAll"
            => /\ last.an.ok => analytics = last.an.body
               /\ last.ls.ok => logs = last.ls.body
       /\ (last.act = "pollGmail" /\ last.ok) => gmailQueue = last.response.body.items
       /\ (last.act = "loadAgentStatus" /\ last.ok) => agentStatus = last.response.body
       /\ (last.act = "loadAgentMeta" /\ last.st.ok) => agentStatus = last.st.body

\* a successful queue poll replaced a non-empty queue by a different one
\* while another operation was in flight
C10_QueueReplaced ==
  /\ last.act = "pollGmail" /\ last.ok /\ phase = "mounted"
  /\ last.prevQueue # <<>> /\ last.prevQueue # last.response.body.items
  /\ InFlight >= 1

\* C11: when run-once answers processed = false to processNext, the status
\* message becomes exactly "No emails pending.", the same for every such call,
\* and processNext issues no mutating call but its single run-once call.
C11_NoEmailsPending ==
  /\ (last.act = "primary" /\ last.kind = "runOnce" /\ last.ok
        /\ ~last.response.body.processed /\ phase = "mounted")
       => statusMsg = "No emails pending."
  /\ \A p \in Operations :
       p.kind = "runOnce"
         => /\ Mutations(p.calls) = 1
            /\ p.calls[1] = "/agent/run-once"

\* processNext is answered processed = false for the second time in a row:
\* the message the first answer left is still shown and no automatic cycle
\* has run
C11_SecondEmptyAnswer ==
  /\ last.act = "primary" /\ last.kind = "runOnce" /\ last.ok
  /\ ~last.response.body.processed /\ phase = "mounted"
  /\ last.prevMsg = "No emails pending."
  /\ nextTimerId = 1

\* C12: runBounded(n) issues exactly one call of the run-loop endpoint, with
\* max_steps = n in its body, however many messages the backend reports as
\* processed; it issues no run-once call and does not repeat the run-loop call.
C12_OneRunLoopCall ==
  \A p \in Operations :
    p.kind = "runLoop"
      => /\ p.calls[1] = "/agent/run-loop"
         /\ Mutations(p.calls) = 1
         /\ ~Issued(p.calls, "/agent/run-once")
         /\ p.payload = [max_steps |-> RunLoopSteps]

\* the only operation of the run, runBounded(10), has finished after the
\* backend reported one processed message
C12_LoopFinished ==
  /\ Finished /\ last.kind = "runLoop" /\ last.proc.primary = "ok"
  /\ started = 1 /\ phase = "mounted"
  /\ statusMsg = "Loop done. Processed 1 messages."

\* C13: after teardown no timer is armed and no timer tick starts, whether
\* autoRun was on or off at teardown.
C13_NoTickAfterTeardown ==
  /\ [](phase = "unmounted" => timers = {})
  /\ [][phase = "unmounted" => TicksInFlight' <= TicksInFlight]_vars

\* the console was torn down while the automatic cycle was on and its timer
\* armed, and a further tick would still fit the bounds of the run
C13_TornDownWhileRunning ==
  /\ phase = "unmounted" /\ autoRun /\ intervalRef # NoTimer
  /\ InFlight < MaxInFlight /\ Events < MaxOps

\* a step of the seed operation: the click, or the return of one of its awaits
SeedStep == handleSeed \/ (last'.act # "none" /\ last'.kind = "handleSeed")

\* C14: a successful seed is followed by a summary/logs refresh and a status
\* refresh and by no queue poll: the seed operation never issues a queue poll
\* and none of its steps changes the stored queue.
C14_SeedLeavesQueue ==
  /\ [](\A p \in Operations :
          p.kind = "handleSeed"
            => /\ ~Issued(p.calls, "/gmail/poll")
               /\ (p.pc = "done" /\ p.primary = "ok")
                    => p.calls = <<"/seed/vendors", "/analytics/summary", "/logs",
                                   "/agent/status">>)
  /\ [][SeedStep => gmailQueue' = gmailQueue]_vars

\* a successful seed has finished while the stored queue held items
C14_SeededWithQueue ==
  /\ Finished /\ last.kind = "handleSeed" /\ last.proc.primary = "ok"
  /\ phase = "mounted" /\ gmailQueue # <<>>

\* the operations that begin with a mutating call
MutatingKinds == ManualKinds \cup {"tick"}

\* C15: within one operation (seed, ingest, processNext, runBounded or a timer
\* tick) the mutating call is the first call, and no refresh request (queue
\* poll, summary/logs, status) is issued before it has returned.
C15_MutationBeforeRefresh ==
  \A p \in Operations :
    p.kind \in MutatingKinds
      => /\ p.calls[1] \in MutatingPaths
         /\ \A i \in 2..Len(p.calls) : p.calls[i] \notin MutatingPaths
         /\ p.primary = "pending" => (Len(p.calls) = 1 /\ p.pc # "done")

\* a tick and a manual action are in flight together: the tick's run-once has
\* returned and it is refreshing, the manual action still awaits its mutating
\* call
C15_RefreshingBesidePending ==
  \E p, q \in BagToSet(procs) :
    /\ p.kind = "tick" /\ p.primary = "ok" /\ Len(p.calls) > 1
    /\ q.kind \in ManualKinds /\ q.primary = "pending"

\* one more operation fits the bounds of the run
WithinBounds == Ready /\ InFlight < MaxInFlight /\ Events < MaxOps
\* a step of a manual action: its click, or the return of one of its awaits
ManualStep ==
  \/ handleSeed \/ handleIngest \/ handleProcess \/ runLoop
  \/ (last'.act # "none" /\ last'.kind \in ManualKinds)

\* C16: the manual actions (processNext, runBounded, seed, ingest) are enabled
\* in every state of the mounted console, also while the automatic cycle is
\* on, and none of their steps changes autoRun, the timer handle or the armed
\* timers.
C16_ManualActionsAnyTime ==
  /\ []((phase = "mounted" /\ WithinBounds)
          => /\ ENABLED handleSeed
             /\ ENABLED handleIngest
             /\ ENABLED handleProcess
             /\ ENABLED runLoop)
  /\ [][ManualStep => UNCHANGED <<autoRun, intervalRef, timers, nextTimerId,
                                  effectPending>>]_vars

\* seed was clicked while the automatic cycle was on: a tick's run-once has
\* returned, the seed request is pending and the timer is still armed
C16_SeedClickedWhileAutoRunning ==
  /\ autoRun /\ ~effectPending /\ timers = {intervalRef}
  /\ statusMsg = "Seeding sample vendor requests..."
  /\ \E p, q \in BagToSet(procs) :
       /\ p.kind = "tick" /\ p.primary # "pending"
       /\ q.kind = "handleSeed" /\ q.primary = "pending"

\* the startup load of the agent's metadata is still in flight
MetaLoading == phase = "init" \/ \E p \in BagToSet(procs) : p.kind = "loadAgentMeta"

\* C17: AgentConfig is requested only by the startup load: no other operation
\* issues a config request, and once the startup load has completed no step
\* (manual action, timer tick, start or stop of the cycle, manual refresh)
\* starts another load or changes the stored AgentConfig.
C17_ConfigOnlyAtStartup ==
  /\ [](\A p \in Operations :
          p.kind # "loadAgentMeta" => ~Issued(p.calls, "/agent/config"))
  /\ [][~MetaLoading => (agentConfig' = agentConfig /\ ~MetaLoading')]_vars
  /\ [][agentConfig' # agentConfig => last'.act = "loadAgentMeta"]_vars

\* the startup load stored the configuration, and since then the automatic
\* cycle was started and one of its ticks has run to its end
C17_ConfigKeptThroughTick ==
  /\ agentConfig # Null /\ ~MetaLoading
  /\ Finished /\ last.kind = "tick" /\ phase = "mounted"

\* C19: every timer tick that finishes has issued at least one queue poll, one
\* summary/logs refresh and one status refresh, whether its run-once call
\* reported a processed message, reported none, or failed in the transport.
C19_TickAlwaysRefreshes ==
  \A p \in Operations :
    (p.kind = "tick" /\ p.pc = "done")
      => /\ p.primary \in {"ok", "fail"}
         /\ Issued(p.calls, "/gmail/poll")
         /\ Issued(p.calls, "/analytics/summary")
         /\ Issued(p.calls, "/logs")
         /\ Issued(p.calls, "/agent/status")

\* a tick whose run-once call failed in the transport has finished
C19_FailedTickFinished ==
  Finished /\ last.kind = "tick" /\ last.proc.primary = "fail"

\* C20: while the console is mounted, the loading flag is true whenever a
\* summary/logs refresh (refreshAll) is in flight, also when several of them
\* overlap.
C20_LoadingWhileRefreshing ==
  (phase = "mounted" /\ Waiting({"refreshAll", "tickRefreshAll"}) # {}) => loading

\* no operation or tick is in flight and no timer is armed
Quiescent == phase = "mounted" /\ InFlight = 0 /\ timers = {} /\ ~effectPending

\* C18: in every quiescent state of a run in which no request has failed (so
\* that the most recent status and queue refreshes succeeded), the stored
\* AgentStatus and queue are the backend's current status and queue, for every
\* interleaving of operations and every order in which their responses resolve.
C18_QuiescentStoreIsCurrent ==
  (Quiescent /\ failures = 0)
    => /\ agentStatus = StatusAt(backend)
       /\ gmailQueue = QueueAt(mailbox)

====
